---- MODULE Spec2Model ----
(***************************************************************************)
(* State-machine model of the simulated voting ledger                      *)
(* (apps/blockchain/blockchain_service.py): Block, VotingBlockchain and    *)
(* BlockchainService, driven by concurrent request threads that share the  *)
(* module-level singleton blockchain_service.                              *)
(*                                                                         *)
(* Hex digests are modelled as terms: Sha256(x) is the tuple               *)
(* <<"sha256", x>>, so two digests are equal exactly when their inputs     *)
(* are (SHA-256 taken as collision-free).  The leading hex characters of   *)
(* a digest are a fixed pseudo-random function of its input (LeadingZeros).*)
(***************************************************************************)
EXTENDS Integers, Sequences, FiniteSets, TLC

(* ------------------------------ bounds --------------------------------- *)
\* total number of cast_vote_to_blockchain calls that are ever started
MaxCasts == 2
\* period of the leading-zero pattern in the nonce: one nonce in every
\* NonceCycle consecutive nonces seals a block
NonceCycle == 3

\* total number of api_cast_vote requests that are ever received
MaxRequests == 3

\* the request threads sharing the singleton service
Threads == {1, 2}
\* the values the wall clock takes
Times == {0, 1}
\* aadhaar numbers of the voters (voter.aadhaar_number, a string)
Voters == {"1001", "1002", "1003"}
\* election.id and candidate.id (database ids, positive integers)
Elections == {1, 2}
Candidates == {1, 2}
\* argument triples in which one required field is None
MalformedBallots == {<<"", 1, 1>>, <<"1001", 0, 1>>, <<"1001", 1, 0>>}
\* the (voter, election, candidate) triples that callers submit
Ballots == {<<"1001", 1, 1>>, <<"1002", 1, 2>>, <<"1001", 2, 2>>}

\* what api_cast_vote requests carry: the aadhaar number of the voter of the
\* session ("" when nobody is logged in), election_id and candidate_id
Requests == {<<"1001", 1, 1>>, <<"1002", 1, 2>>, <<"", 1, 1>>, <<"1001", 1, 2>>,
             <<"1001", 2, 1>>}
\* the rows of the Election, Voter and Candidate tables that the view reads
ElectionStatus == [e \in Elections |-> IF e = 1 THEN "live" ELSE "completed"]
StartDate == [e \in Elections |-> 0]
EndDate == [e \in Elections |-> 1]
VoterConstituency == [v \in Voters |-> IF v = "1002" THEN "B" ELSE "A"]
CandidateConstituency == [k \in Candidates |-> IF k = 1 THEN "A" ELSE "B"]

(* ------------------------------ values --------------------------------- *)
\* self.difficulty as set by VotingBlockchain.__init__
DefaultDifficulty == 2
\* Python's None where an election id is expected (ids are positive)
NoneId == 0
\* Python's None where a voter identifier (a string) is expected
NoneVoter == ""
\* Python's None where a hex digest is expected
NoneHash == << >>
\* the literal '0' that is the genesis block's previous_hash
Lit0 == <<"0">>
GenesisMessage == "Genesis Block - Matdaan Voting System"

Digit == <<"0", "1", "2", "3", "4", "5", "6", "7", "8", "9">>
\* str(n) for a non-negative integer
RECURSIVE Str(_)
Str(n) == IF n < 10 THEN Digit[n + 1] ELSE Str(n \div 10) \o Digit[(n % 10) + 1]

\* str(x) for an id or for None
PyStr(x) == IF x = NoneId THEN "None" ELSE Str(x)

\* hashlib.sha256(x).hexdigest(), collision-free
Sha256(x) == <<"sha256", x>>

\* json.dumps({...}, sort_keys=True) of the five hashed fields of a block:
\* the fields in the order of their sorted keys
JsonDumps(b) == <<b.data, b.index, b.nonce, b.previous_hash, b.timestamp>>

\* Block.calculate_hash
CalculateHash(b) == Sha256(JsonDumps(b))

\* a number derived from a vote or genesis payload; part of the digest pattern
DataCode(d) ==
    IF d.type = "vote" THEN d.election_id + d.transaction_id + d.timestamp
    ELSE 1

\* position of a block digest in the leading-zero pattern
RECURSIVE Mix(_)
Mix(h) ==
    IF Len(h) < 2 THEN 0
    ELSE LET s == h[2]
         IN (DataCode(s[1]) + s[2] + s[3] + Mix(s[4]) + s[5]) % NonceCycle

\* number of leading '0' hex characters of a block digest
LeadingZeros(h) ==
    LET m == Mix(h) IN IF m = 0 THEN 2 ELSE IF m = 1 THEN 1 ELSE 0

\* faulty variant of MineDone: the prefix compared is one character short
MineDone_ShortPrefix(b, d) == LeadingZeros(b.hash) >= d - 1

\* the loop test of mine_block negated: hash[:difficulty] == '0' * difficulty
MineDone(b, d) == LeadingZeros(b.hash) >= d

\* faulty variant of MineIncr: every other nonce is skipped
MineIncr_ByTwo(b) == [b EXCEPT !.nonce = @ + 2]

\* self.nonce += 1
MineIncr(b) == [b EXCEPT !.nonce = @ + 1]

\* self.hash = self.calculate_hash()
Rehash(b) == [b EXCEPT !.hash = CalculateHash(b)]

\* faulty variant of MineIter: the hash is recomputed before the nonce is incremented
MineIter_Swapped(b) == MineIncr(Rehash(b))

\* the body of the loop of mine_block
MineIter(b) == Rehash(MineIncr(b))

\* Block.mine_block run to completion
RECURSIVE MineBlock(_, _)
MineBlock(b, d) == IF MineDone(b, d) THEN b ELSE MineBlock(MineIter(b), d)

\* Block.__init__
NewBlock(index, timestamp, data, previous_hash) ==
    Rehash([index |-> index, timestamp |-> timestamp, data |-> data,
            previous_hash |-> previous_hash, nonce |-> 0, hash |-> NoneHash])

GenesisData == [type |-> "genesis", message |-> GenesisMessage]

\* faulty variant of create_genesis_block: the block is not mined
CreateGenesisBlock_Unmined(ts, d) == <<NewBlock(0, ts, GenesisData, Lit0)>>

\* VotingBlockchain.create_genesis_block, on the empty chain
CreateGenesisBlock(ts, d) == <<MineBlock(NewBlock(0, ts, GenesisData, Lit0), d)>>

\* variant of the append that replaces a last block built on the same
\* predecessor
AppendBlock_ResolveFork(c, b) ==
    IF c[Len(c)].previous_hash = b.previous_hash
    THEN [c EXCEPT ![Len(c)] = b]
    ELSE Append(c, b)

\* variant of the append that refuses a second vote of a voter in an election
AppendBlock_Unique(c, b) ==
    IF \E i \in 1 .. Len(c) :
          /\ c[i].data.type = "vote"
          /\ c[i].data.election_id = b.data.election_id
          /\ c[i].data.voter_hash = b.data.voter_hash
    THEN c
    ELSE Append(c, b)

\* faulty variant of GetLatestBlock: the first block instead of the last
GetLatestBlock_First(c) == c[1]

\* VotingBlockchain.get_latest_block: self.chain[-1]
GetLatestBlock(c) == c[Len(c)]

\* faulty variant of AppendBlock: the block is stored at the position its index names
AppendBlock_AtIndex(c, b) ==
    IF b.index + 1 \in DOMAIN c THEN [c EXCEPT ![b.index + 1] = b] ELSE Append(c, b)

\* self.chain.append(new_block)
AppendBlock(c, b) == Append(c, b)

\* faulty variant of VoteData: candidate_hash is computed from voter_id
VoteData_VoterAsCandidate(voter_id, election_id, candidate_id, ts, tx) ==
    [type |-> "vote",
     voter_hash |-> Sha256(voter_id),
     election_id |-> election_id,
     candidate_hash |-> Sha256(voter_id),
     timestamp |-> ts,
     transaction_id |-> tx]

\* faulty variant of VoteData: the voter identifier is stored as well
VoteData_WithVoterId(voter_id, election_id, candidate_id, ts, tx) ==
    [type |-> "vote",
     voter_id |-> voter_id,
     voter_hash |-> Sha256(voter_id),
     election_id |-> election_id,
     candidate_hash |-> Sha256(PyStr(candidate_id)),
     timestamp |-> ts,
     transaction_id |-> tx]

\* the vote_data dictionary built by cast_vote_to_blockchain
VoteData(voter_id, election_id, candidate_id, ts, tx) ==
    [type |-> "vote",
     voter_hash |-> Sha256(voter_id),
     election_id |-> election_id,
     candidate_hash |-> Sha256(PyStr(candidate_id)),
     timestamp |-> ts,
     transaction_id |-> tx]

\* faulty variant of IsChainValid: the stored hash is not compared with the
\* recomputed one
IsChainValid_LinkOnly(c) ==
    \A i \in 2 .. Len(c) : c[i].previous_hash = c[i - 1].hash

\* faulty variant of IsChainValid: only the last block is examined
IsChainValid_LastOnly(c) ==
    Len(c) >= 2 =>
        /\ c[Len(c)].hash = CalculateHash(c[Len(c)])
        /\ c[Len(c)].previous_hash = c[Len(c) - 1].hash

\* VotingBlockchain.is_chain_valid
IsChainValid(c) ==
    \A i \in 2 .. Len(c) :
        /\ c[i].hash = CalculateHash(c[i])
        /\ c[i].previous_hash = c[i - 1].hash

\* dict.get(key) with the value returned when the key is absent
DictGet(d, key, none) == IF key \in DOMAIN d THEN d[key] ELSE none

\* faulty variant of GetBlocksByElection: the election id is not compared
GetBlocksByElection_AnyElection(c, election_id) ==
    {i \in 1 .. Len(c) : DictGet(c[i].data, "type", "") = "vote"}

\* VotingBlockchain.get_blocks_by_election: the positions of the blocks
\* it returns, in chain order
GetBlocksByElection(c, election_id) ==
    {i \in 1 .. Len(c) :
        /\ DictGet(c[i].data, "type", "") = "vote"
        /\ DictGet(c[i].data, "election_id", NoneId) = election_id}

\* faulty variant of has_voter_voted: the vote blocks of all elections are
\* searched
HasVoterVoted_AnyElection(c, voter_id, election_id) ==
    LET voter_hash == Sha256(voter_id)
    IN \E i \in 1 .. Len(c) :
          /\ DictGet(c[i].data, "type", "") = "vote"
          /\ DictGet(c[i].data, "voter_hash", NoneHash) = voter_hash

\* BlockchainService.has_voter_voted
HasVoterVoted(c, voter_id, election_id) ==
    LET voter_hash == Sha256(voter_id)
    IN \E i \in GetBlocksByElection(c, election_id) :
          DictGet(c[i].data, "voter_hash", NoneHash) = voter_hash

\* faulty variant of get_block_by_hash: the latest block when none matches
GetBlockByHash_OrLatest(c, block_hash) ==
    LET hits == {i \in 1 .. Len(c) : c[i].hash = block_hash}
    IN IF hits = {} THEN <<c[Len(c)]>>
       ELSE <<c[CHOOSE i \in hits : \A j \in hits : i <= j]>>

\* VotingBlockchain.get_block_by_hash: the first block whose hash is
\* block_hash as a one-element sequence, or the empty sequence for None
GetBlockByHash(c, block_hash) ==
    LET hits == {i \in 1 .. Len(c) : c[i].hash = block_hash}
    IN IF hits = {} THEN << >>
       ELSE <<c[CHOOSE i \in hits : \A j \in hits : i <= j]>>

\* faulty variant of verify_vote: is_chain_valid() is not consulted
VerifyVote_AssumeValid(c, block_hash) ==
    LET found == GetBlockByHash(c, block_hash)
    IN IF found = << >>
       THEN [verified |-> FALSE, message |-> "Vote not found on blockchain"]
       ELSE [verified |-> TRUE,
             is_valid_chain |-> TRUE,
             block_index |-> found[1].index,
             timestamp |-> found[1].timestamp,
             data |-> found[1].data,
             message |-> "Vote verified on blockchain"]

\* BlockchainService.verify_vote
VerifyVote(c, block_hash) ==
    LET found == GetBlockByHash(c, block_hash)
    IN IF found = << >>
       THEN [verified |-> FALSE, message |-> "Vote not found on blockchain"]
       ELSE [verified |-> TRUE,
             is_valid_chain |-> IsChainValid(c),
             block_index |-> found[1].index,
             timestamp |-> found[1].timestamp,
             data |-> found[1].data,
             message |-> "Vote verified on blockchain"]

\* `if candidate_hash:` (None and the empty string are false)
Truthy(h) == h # NoneHash

\* vote_counts built without the `+ 1`: every hash seen is counted once
VoteCounts_NoIncrement(c, election_id) ==
    LET blocks == GetBlocksByElection(c, election_id)
    IN [h \in {c[i].data.candidate_hash : i \in blocks} |-> 1]

\* the vote_counts dictionary built by get_election_results
VoteCounts(c, election_id) ==
    LET blocks == GetBlocksByElection(c, election_id)
        counted == {i \in blocks : Truthy(DictGet(c[i].data, "candidate_hash", NoneHash))}
    IN [h \in {c[i].data.candidate_hash : i \in counted} |->
           Cardinality({i \in counted : c[i].data.candidate_hash = h})]

\* BlockchainService.get_election_results
GetElectionResults(c, election_id) ==
    [election_id |-> election_id,
     total_votes |-> Cardinality(GetBlocksByElection(c, election_id)),
     vote_distribution |-> VoteCounts(c, election_id),
     blockchain_verified |-> IsChainValid(c)]

\* BlockchainService.get_blockchain_stats
GetBlockchainStats(c, d) ==
    [total_blocks |-> Len(c),
     is_valid |-> IsChainValid(c),
     latest_block_hash |-> GetLatestBlock(c).hash,
     difficulty |-> d]

\* Block.to_dict
ToDict(b) ==
    [index |-> b.index, timestamp |-> b.timestamp, data |-> b.data,
     previous_hash |-> b.previous_hash, nonce |-> b.nonce, hash |-> b.hash]

\* faulty variant of export_blockchain: newest block first
ExportBlockchain_Reversed(c) == [i \in 1 .. Len(c) |-> ToDict(c[Len(c) + 1 - i])]

\* BlockchainService.export_blockchain
ExportBlockchain(c) == [i \in 1 .. Len(c) |-> ToDict(c[i])]

(* ------------------------------- state --------------------------------- *)
VARIABLES
    chain,       \* blockchain_service.blockchain.chain
    difficulty,  \* blockchain_service.blockchain.difficulty
    now,         \* the wall clock read by datetime.now()
    nextTx,      \* the next fresh secrets.token_hex(16) value
    pc,          \* per thread: the place it has reached in its call
    call,        \* per thread: the arguments of its call
    vote_data,   \* per thread: local vote_data of cast_vote_to_blockchain
    new_index,   \* per thread: len(self.chain) as read by add_block
    new_block,   \* per thread: local new_block of add_block
    returns,     \* every call that has returned, with the dict it returned
    last_read,   \* the latest read operation on the present chain and its result
    view,        \* per thread: the locals of its api_cast_vote request
    votes,       \* the rows of the Vote table
    responses,   \* the JsonResponse of every request answered, by request
    mine_start   \* the block as it was when mine_block was called on its own

vars == <<chain, difficulty, now, nextTx, pc, call, vote_data, new_index,
          new_block, returns, last_read, view, votes, responses, mine_start>>

\* the variables of the application around the ledger
appvars == <<view, votes, responses>>

NoCall == [voter |-> NoneVoter, election |-> NoneId, candidate |-> NoneId]
NoData == [type |-> "none"]
NoBlock == [index |-> 0, timestamp |-> 0, data |-> NoData,
            previous_hash |-> NoneHash, nonce |-> 0, hash |-> NoneHash]

\* a thread that serves no api_cast_vote request
NoView == [stage |-> "none", rid |-> 0, voter |-> NoneVoter, election |-> NoneId,
           candidate |-> NoneId, block_hash |-> NoneHash, transaction_hash |-> 0]

\* no read operation has run on the present chain
NoRead == [op |-> "none"]

\* the state after `blockchain_service = BlockchainService()`
Init ==
    /\ difficulty = DefaultDifficulty
    /\ now = 0
    /\ chain = CreateGenesisBlock(0, DefaultDifficulty)
    /\ nextTx = 1
    /\ pc = [t \in Threads |-> "idle"]
    /\ call = [t \in Threads |-> NoCall]
    /\ vote_data = [t \in Threads |-> NoData]
    /\ new_index = [t \in Threads |-> 0]
    /\ new_block = [t \in Threads |-> NoBlock]
    /\ returns = {}
    /\ last_read = NoRead
    /\ view = [t \in Threads |-> NoView]
    /\ votes = {}
    /\ responses = << >>
    /\ mine_start = NoBlock

\* the clock advances
Tick ==
    /\ now + 1 \in Times
    /\ now' = now + 1
    /\ UNCHANGED <<chain, difficulty, nextTx, pc, call, vote_data, new_index,
                   new_block, returns, last_read, appvars, mine_start>>

\* cast_vote_to_blockchain is entered and builds vote_data; a request is
\* served by the lowest-numbered free thread
CastBegin(t) ==
    /\ pc[t] = "idle"
    /\ \A u \in Threads : u < t => pc[u] # "idle"
    /\ nextTx <= MaxCasts
    /\ \E b \in Ballots :
          /\ call' = [call EXCEPT ![t] = [voter |-> b[1], election |-> b[2], candidate |-> b[3]]]
          /\ vote_data' = [vote_data EXCEPT ![t] = VoteData(b[1], b[2], b[3], now, nextTx)]
    /\ nextTx' = nextTx + 1
    /\ pc' = [pc EXCEPT ![t] = "add_block"]
    /\ UNCHANGED <<chain, difficulty, now, new_index, new_block, returns, last_read, appvars, mine_start>>

\* add_block evaluates index=len(self.chain)
ReadLen(t) ==
    /\ pc[t] = "add_block"
    /\ new_index' = [new_index EXCEPT ![t] = Len(chain)]
    /\ pc' = [pc EXCEPT ![t] = "construct"]
    /\ UNCHANGED <<chain, difficulty, now, nextTx, call, vote_data, new_block, returns, last_read, appvars, mine_start>>

\* add_block evaluates the timestamp and self.get_latest_block().hash and
\* constructs the block
Construct(t) ==
    /\ pc[t] = "construct"
    /\ new_block' = [new_block EXCEPT ![t] =
          NewBlock(new_index[t], now, vote_data[t], GetLatestBlock(chain).hash)]
    /\ pc' = [pc EXCEPT ![t] = "mine"]
    /\ UNCHANGED <<chain, difficulty, now, nextTx, call, vote_data, new_index, returns, last_read, appvars, mine_start>>

\* faulty variant of MineStep: the nonce advances with the wall clock
MineStep_Clock(t) ==
    /\ pc[t] = "mine"
    /\ ~MineDone(new_block[t], difficulty)
    /\ new_block' = [new_block EXCEPT ![t] = Rehash([@ EXCEPT !.nonce = @ + 1 + now])]
    /\ UNCHANGED <<chain, difficulty, now, nextTx, pc, call, vote_data, new_index, returns, last_read, appvars, mine_start>>

\* one iteration of the loop of mine_block: the loop test fails, nonce += 1
\* and the hash is recomputed (the block is local to the thread)
MineStep(t) ==
    /\ pc[t] = "mine"
    /\ ~MineDone(new_block[t], difficulty)
    /\ new_block' = [new_block EXCEPT ![t] = MineIter(@)]
    /\ UNCHANGED <<chain, difficulty, now, nextTx, pc, call, vote_data, new_index, returns, last_read, appvars, mine_start>>

\* variant of AppendStep with a cancellation path: the mined block is
\* dropped and the call abandoned
AppendStep_Abandon(t) ==
    /\ pc[t] = "mine"
    /\ MineDone(new_block[t], difficulty)
    /\ pc' = [pc EXCEPT ![t] = "idle"]
    /\ call' = [call EXCEPT ![t] = NoCall]
    /\ vote_data' = [vote_data EXCEPT ![t] = NoData]
    /\ new_index' = [new_index EXCEPT ![t] = 0]
    /\ new_block' = [new_block EXCEPT ![t] = NoBlock]
    /\ UNCHANGED <<chain, difficulty, now, nextTx, returns, last_read, appvars, mine_start>>

\* the loop of mine_block ends and add_block appends the mined block; what
\* was read from the chain before is no longer a result on the present chain
AppendStep(t) ==
    /\ pc[t] = "mine"
    /\ MineDone(new_block[t], difficulty)
    /\ chain' = AppendBlock(chain, new_block[t])
    /\ pc' = [pc EXCEPT ![t] = "return"]
    /\ last_read' = NoRead
    /\ UNCHANGED <<difficulty, now, nextTx, call, vote_data, new_index, new_block, returns,
                   appvars, mine_start>>

\* the dict cast_vote_to_blockchain returns
CastResult(block, data) ==
    [success |-> TRUE,
     block_hash |-> block.hash,
     transaction_hash |-> data.transaction_id,
     block_index |-> block.index,
     timestamp |-> block.timestamp]

\* cast_vote_to_blockchain returns to its caller
Return(t) ==
    /\ pc[t] = "return"
    /\ returns' = returns \cup
          {[call |-> call[t], result |-> CastResult(new_block[t], vote_data[t])]}
    /\ pc' = [pc EXCEPT ![t] = "idle"]
    /\ call' = [call EXCEPT ![t] = NoCall]
    /\ vote_data' = [vote_data EXCEPT ![t] = NoData]
    /\ new_index' = [new_index EXCEPT ![t] = 0]
    /\ new_block' = [new_block EXCEPT ![t] = NoBlock]
    /\ UNCHANGED <<chain, difficulty, now, nextTx, last_read, appvars, mine_start>>

\* one step of thread t
ThreadStep(t) ==
    \/ CastBegin(t)
    \/ ReadLen(t)
    \/ Construct(t)
    \/ MineStep(t)
    \/ AppendStep(t)
    \/ Return(t)

Next == Tick \/ \E t \in Threads : ThreadStep(t)

\* requests served by threads that run concurrently
Spec == Init /\ [][Next]_vars

\* the variables no read operation assigns
state == <<chain, difficulty, now, nextTx, pc, call, vote_data, new_index,
           new_block, returns, appvars, mine_start>>

\* the block hashes callers ask about: those of the chain, the literal '0'
\* and those of blocks not (yet) in the chain
QueryHashes ==
    {chain[i].hash : i \in 1 .. Len(chain)} \cup {Lit0}
    \cup {new_block[t].hash : t \in {u \in Threads : pc[u] = "mine"}}

\* faulty variant of is_chain_valid(): it resets a chain it rejects
IsChainValidCall_Repairing ==
    /\ last_read.op \in {"none", "is_chain_valid"}
    /\ last_read' = [op |-> "is_chain_valid", result |-> IsChainValid(chain)]
    /\ chain' = IF IsChainValid(chain) THEN chain ELSE SubSeq(chain, 1, 1)
    /\ UNCHANGED <<difficulty, now, nextTx, pc, call, vote_data, new_index,
                   new_block, returns, appvars, mine_start>>

\* a caller runs is_chain_valid(), for the first time or again
IsChainValidCall ==
    /\ last_read.op \in {"none", "is_chain_valid"}
    /\ last_read' = [op |-> "is_chain_valid", result |-> IsChainValid(chain)]
    /\ UNCHANGED state

\* a caller runs get_block_by_hash(h)
GetBlockByHashCall ==
    /\ last_read.op = "none"
    /\ \E h \in QueryHashes :
          last_read' = [op |-> "get_block_by_hash", arg |-> h,
                        result |-> GetBlockByHash(chain, h)]
    /\ UNCHANGED state

\* a caller runs get_blocks_by_election(e)
GetBlocksByElectionCall ==
    /\ last_read.op = "none"
    /\ \E e \in Elections :
          last_read' = [op |-> "get_blocks_by_election", arg |-> e,
                        result |-> GetBlocksByElection(chain, e)]
    /\ UNCHANGED state

\* a caller runs verify_vote(h)
VerifyVoteCall ==
    /\ last_read.op = "none"
    /\ \E h \in QueryHashes :
          last_read' = [op |-> "verify_vote", arg |-> h,
                        result |-> VerifyVote(chain, h)]
    /\ UNCHANGED state

\* a caller runs has_voter_voted(v, e)
HasVoterVotedCall ==
    /\ last_read.op = "none"
    /\ \E v \in Voters, e \in Elections :
          last_read' = [op |-> "has_voter_voted", arg |-> <<v, e>>,
                        result |-> HasVoterVoted(chain, v, e)]
    /\ UNCHANGED state

\* a caller runs get_election_results(e)
GetElectionResultsCall ==
    /\ last_read.op = "none"
    /\ \E e \in Elections :
          last_read' = [op |-> "get_election_results", arg |-> e,
                        result |-> GetElectionResults(chain, e)]
    /\ UNCHANGED state

\* a caller runs get_blockchain_stats()
GetBlockchainStatsCall ==
    /\ last_read.op = "none"
    /\ last_read' = [op |-> "get_blockchain_stats",
                     result |-> GetBlockchainStats(chain, difficulty)]
    /\ UNCHANGED state

\* a caller runs export_blockchain()
ExportBlockchainCall ==
    /\ last_read.op = "none"
    /\ last_read' = [op |-> "export_blockchain", result |-> ExportBlockchain(chain)]
    /\ UNCHANGED state

\* the read operation has returned and its caller is done with the value
ReadReturn ==
    /\ last_read.op # "none"
    /\ last_read' = NoRead
    /\ UNCHANGED state

\* one read operation
ReadStep ==
    \/ IsChainValidCall
    \/ GetBlockByHashCall
    \/ GetBlocksByElectionCall
    \/ VerifyVoteCall
    \/ HasVoterVotedCall
    \/ GetElectionResultsCall
    \/ GetBlockchainStatsCall
    \/ ExportBlockchainCall

NextRead == ReadStep \/ ReadReturn \/ \E t \in Threads : ThreadStep(t)

\* concurrent casts and read operations
SpecRead == Init /\ [][NextRead]_vars

\* the steps of a call that has started
Running(t) == ReadLen(t) \/ Construct(t) \/ MineStep(t) \/ AppendStep(t) \/ Return(t)

NextCast == \E t \in Threads : ThreadStep(t)

\* concurrent calls, every thread inside a call being scheduled again and
\* again
SpecFair == Init /\ [][NextCast]_vars /\ \A t \in Threads : WF_vars(Running(t))

\* cast_vote_to_blockchain is entered with a required argument that is None.
\* None.encode() raises AttributeError while vote_data is being built; a None
\* election_id or candidate_id is stored or stringified like any other value
CastMalformed(t) ==
    /\ pc[t] = "idle"
    /\ \A u \in Threads : u < t => pc[u] # "idle"
    /\ nextTx <= MaxCasts
    /\ \E b \in MalformedBallots :
          /\ call' = [call EXCEPT ![t] = [voter |-> b[1], election |-> b[2], candidate |-> b[3]]]
          /\ IF b[1] = NoneVoter
             THEN /\ pc' = [pc EXCEPT ![t] = "raise"]
                  /\ UNCHANGED vote_data
             ELSE /\ pc' = [pc EXCEPT ![t] = "add_block"]
                  /\ vote_data' = [vote_data EXCEPT ![t] = VoteData(b[1], b[2], b[3], now, nextTx)]
    /\ nextTx' = nextTx + 1
    /\ UNCHANGED <<chain, difficulty, now, new_index, new_block, returns, last_read, appvars, mine_start>>

\* the AttributeError leaves cast_vote_to_blockchain: no dict is returned
Raise(t) ==
    /\ pc[t] = "raise"
    /\ returns' = returns \cup {[call |-> call[t], result |-> [raised |-> "AttributeError"]]}
    /\ pc' = [pc EXCEPT ![t] = "idle"]
    /\ call' = [call EXCEPT ![t] = NoCall]
    /\ UNCHANGED <<chain, difficulty, now, nextTx, vote_data, new_index, new_block, last_read, appvars, mine_start>>

\* no other thread is inside a call
Alone(t) == \A u \in Threads \ {t} : pc[u] = "idle"

NextSeq == Tick \/ \E t \in Threads : Alone(t) /\ ThreadStep(t)

\* calls executed one at a time
SpecSeq == Init /\ [][NextSeq]_vars

NextMal ==
    \/ Tick
    \/ \E t \in Threads : Alone(t) /\ (ThreadStep(t) \/ CastMalformed(t) \/ Raise(t))

\* calls executed one at a time, some of them with a None argument
SpecMal == Init /\ [][NextMal]_vars

(* ------------------------------ mine_block ---------------------------- *)
\* the blocks mine_block is called on: constructed blocks whose nonce has
\* been advanced by earlier searches
MineInputs ==
    {Rehash([index |-> i, timestamp |-> ts, data |-> d, previous_hash |-> Lit0,
             nonce |-> n, hash |-> NoneHash]) :
        i \in 0 .. 1, ts \in Times, d \in {GenesisData, VoteData("1001", 1, 1, 0, 1)},
        n \in 0 .. NonceCycle}

\* mine_block(difficulty) is called on a block, with a difficulty from 0 to
\* the one the chain uses
InitMine ==
    /\ difficulty \in 0 .. DefaultDifficulty
    /\ now = 0
    /\ chain = CreateGenesisBlock(0, DefaultDifficulty)
    /\ nextTx = 1
    /\ pc = [t \in Threads |-> IF t = 1 THEN "mine" ELSE "idle"]
    /\ call = [t \in Threads |-> NoCall]
    /\ vote_data = [t \in Threads |-> NoData]
    /\ new_index = [t \in Threads |-> 0]
    /\ \E b \in MineInputs :
          /\ new_block = [t \in Threads |-> IF t = 1 THEN b ELSE NoBlock]
          /\ mine_start = b
    /\ returns = {}
    /\ last_read = NoRead
    /\ view = [t \in Threads |-> NoView]
    /\ votes = {}
    /\ responses = << >>

\* the loop test of mine_block succeeds and mine_block returns
MineReturn(t) ==
    /\ pc[t] = "mine"
    /\ MineDone(new_block[t], difficulty)
    /\ pc' = [pc EXCEPT ![t] = "mined"]
    /\ UNCHANGED <<chain, difficulty, now, nextTx, call, vote_data, new_index, new_block,
                   returns, last_read, appvars, mine_start>>

NextMine == \E t \in Threads : MineStep(t) \/ MineReturn(t)

\* mine_block run on its own
SpecMine == InitMine /\ [][NextMine]_vars

(* ---------------------------- api_cast_vote --------------------------- *)
\* Election.is_active at time ts
IsActive(e, ts) == ElectionStatus[e] = "live" /\ StartDate[e] <= ts /\ ts <= EndDate[e]

\* the requests received so far, answered or not
UsedRids == DOMAIN responses \cup {view[u].rid : u \in {w \in Threads : view[w].stage # "none"}}

\* Vote.objects.filter(voter=voter, election=election).exists()
VoteExists(voter, election) == \E r \in votes : r.voter = voter /\ r.election = election

\* the view returns a JsonResponse for the request v and the thread is free
Answer(t, v, success, message, hash) ==
    /\ responses' = (v.rid :> [voter |-> v.voter, election |-> v.election,
                               candidate |-> v.candidate, success |-> success,
                               message |-> message, blockchain_hash |-> hash]) @@ responses
    /\ view' = [view EXCEPT ![t] = NoView]

\* api_cast_vote is entered: the session and election.is_active() are checked
ViewBegin(t) ==
    /\ view[t].stage = "none"
    /\ pc[t] = "idle"
    /\ \A u \in Threads : u < t => view[u].stage # "none"
    /\ Cardinality(UsedRids) < MaxRequests
    /\ \E rq \in Requests :
          LET v == [NoView EXCEPT !.stage = "validate", !.rid = Cardinality(UsedRids) + 1,
                                  !.voter = rq[1], !.election = rq[2], !.candidate = rq[3]]
          IN IF rq[1] = NoneVoter
             THEN Answer(t, v, FALSE, "Not logged in", NoneHash)
             ELSE IF ~IsActive(rq[2], now)
             THEN Answer(t, v, FALSE, "Election is not active", NoneHash)
             ELSE view' = [view EXCEPT ![t] = v] /\ UNCHANGED responses
    /\ UNCHANGED <<chain, difficulty, now, nextTx, pc, call, vote_data, new_index,
                   new_block, returns, last_read, votes, mine_start>>

\* faulty variant of ViewValidate: the constituencies are not compared
ViewValidate_NoConstituencyCheck(t) ==
    /\ view[t].stage = "validate"
    /\ IF VoteExists(view[t].voter, view[t].election)
       THEN Answer(t, view[t], FALSE, "You have already voted", NoneHash)
       ELSE view' = [view EXCEPT ![t].stage = "cast"] /\ UNCHANGED responses
    /\ UNCHANGED <<chain, difficulty, now, nextTx, pc, call, vote_data, new_index,
                   new_block, returns, last_read, votes, mine_start>>

\* the Vote table is queried and the constituencies are compared
ViewValidate(t) ==
    /\ view[t].stage = "validate"
    /\ IF VoteExists(view[t].voter, view[t].election)
       THEN Answer(t, view[t], FALSE, "You have already voted", NoneHash)
       ELSE IF CandidateConstituency[view[t].candidate] # VoterConstituency[view[t].voter]
       THEN Answer(t, view[t], FALSE, "Invalid candidate for your constituency", NoneHash)
       ELSE view' = [view EXCEPT ![t].stage = "cast"] /\ UNCHANGED responses
    /\ UNCHANGED <<chain, difficulty, now, nextTx, pc, call, vote_data, new_index,
                   new_block, returns, last_read, votes, mine_start>>

\* the view calls blockchain_service.cast_vote_to_blockchain, which builds
\* vote_data
ViewCast(t) ==
    /\ view[t].stage = "cast"
    /\ pc[t] = "idle"
    /\ call' = [call EXCEPT ![t] = [voter |-> view[t].voter, election |-> view[t].election,
                                     candidate |-> view[t].candidate]]
    /\ vote_data' = [vote_data EXCEPT ![t] =
          VoteData(view[t].voter, view[t].election, view[t].candidate, now, nextTx)]
    /\ nextTx' = nextTx + 1
    /\ pc' = [pc EXCEPT ![t] = "add_block"]
    /\ view' = [view EXCEPT ![t].stage = "ledger"]
    /\ UNCHANGED <<chain, difficulty, now, new_index, new_block, returns, last_read,
                   votes, responses, mine_start>>

\* cast_vote_to_blockchain returns to the view, which tests
\* blockchain_result['success']
ViewCastReturn(t) ==
    /\ view[t].stage = "ledger"
    /\ pc[t] = "return"
    /\ LET blockchain_result == CastResult(new_block[t], vote_data[t])
       IN /\ returns' = returns \cup {[call |-> call[t], result |-> blockchain_result]}
          /\ IF ~blockchain_result.success
             THEN Answer(t, view[t], FALSE, "Blockchain recording failed", NoneHash)
             ELSE /\ view' = [view EXCEPT ![t].stage = "create",
                                          ![t].block_hash = blockchain_result.block_hash,
                                          ![t].transaction_hash = blockchain_result.transaction_hash]
                  /\ UNCHANGED responses
    /\ pc' = [pc EXCEPT ![t] = "idle"]
    /\ call' = [call EXCEPT ![t] = NoCall]
    /\ vote_data' = [vote_data EXCEPT ![t] = NoData]
    /\ new_index' = [new_index EXCEPT ![t] = 0]
    /\ new_block' = [new_block EXCEPT ![t] = NoBlock]
    /\ UNCHANGED <<chain, difficulty, now, nextTx, last_read, votes, mine_start>>

\* Vote.objects.create: the unique constraints of the Vote table make it
\* raise IntegrityError, which the except clause turns into a response;
\* otherwise the row is stored and the view answers with the receipt
ViewCreate(t) ==
    /\ view[t].stage = "create"
    /\ IF \E r \in votes : \/ r.voter = view[t].voter /\ r.election = view[t].election
                           \/ r.blockchain_hash = view[t].block_hash
                           \/ r.transaction_hash = view[t].transaction_hash
       THEN /\ Answer(t, view[t], FALSE, "Failed to cast vote", NoneHash)
            /\ UNCHANGED votes
       ELSE /\ votes' = votes \cup {[voter |-> view[t].voter, election |-> view[t].election,
                                      candidate |-> view[t].candidate,
                                      blockchain_hash |-> view[t].block_hash,
                                      transaction_hash |-> view[t].transaction_hash]}
            /\ Answer(t, view[t], TRUE, "Vote cast successfully", view[t].block_hash)
    /\ UNCHANGED <<chain, difficulty, now, nextTx, pc, call, vote_data, new_index,
                   new_block, returns, last_read, mine_start>>

\* one step of a thread serving api_cast_vote
ViewStep(t) ==
    \/ ViewBegin(t)
    \/ ViewValidate(t)
    \/ ViewCast(t)
    \/ ReadLen(t)
    \/ Construct(t)
    \/ MineStep(t)
    \/ AppendStep(t)
    \/ ViewCastReturn(t)
    \/ ViewCreate(t)

NextApp == \E t \in Threads : ViewStep(t)

\* concurrent api_cast_vote requests
SpecApp == Init /\ [][NextApp]_vars

NextAudit == NextApp \/ IsChainValidCall \/ ReadReturn

\* concurrent api_cast_vote requests, with is_chain_valid() called at any time
SpecAudit == Init /\ [][NextAudit]_vars

(* ------------------------------ properties ----------------------------- *)
\* every thread is outside any call
Quiescent == \A t \in Threads : pc[t] = "idle"

\* the positions of the chain, counted from 0 as the code counts them
Positions(c) == 0 .. Len(c) - 1
\* the block at position i (counted from 0)
At(c, i) == c[i + 1]

\* C1: every chain reached from VotingBlockchain() by add_block /
\* cast_vote_to_blockchain calls that run one at a time passes
\* is_chain_valid().
C1_SequentialChainValid == IsChainValid(chain)

\* two calls have run to completion, one after the other
C1_Witness == Quiescent /\ Len(chain) >= 3 /\ Cardinality(returns) >= 2

\* C2: the chain never holds two blocks with equal previous_hash (no two
\* callers read the same latest block and both append on top of it).
C2_NoSharedPreviousHash ==
    \A i, j \in Positions(chain) :
        i # j => At(chain, i).previous_hash # At(chain, j).previous_hash

\* C3: linkage: chain[i].previous_hash == chain[i-1].hash for 1 <= i < len.
C3_Linkage ==
    \A i \in Positions(chain) :
        i >= 1 => At(chain, i).previous_hash = At(chain, i - 1).hash

\* C4: every block's index equals its position in the chain, and the
\* block_index a cast returned is the position at which the block with the
\* returned block_hash sits.
C4_IndexIsPosition ==
    /\ \A i \in Positions(chain) : At(chain, i).index = i
    /\ \A r \in returns :
          /\ r.result.block_index \in Positions(chain)
          /\ At(chain, r.result.block_index).hash = r.result.block_hash

\* C5: a cast entered on a chain of length n (the length add_block reads)
\* has, when it is about to return, made the chain n+1 long; the last block
\* is its vote block, with index n and previous_hash the hash of the former
\* last block, and the block_hash and block_index it returns are that
\* block's.
C5_CastAddsOneBlock ==
    \A t \in Threads :
        pc[t] = "return" =>
            LET n == new_index[t]
                res == CastResult(new_block[t], vote_data[t])
                last == GetLatestBlock(chain)
            IN /\ Len(chain) = n + 1
               /\ last.data = vote_data[t]
               /\ last.data.type = "vote"
               /\ last.index = n
               /\ last.previous_hash = At(chain, n - 1).hash
               /\ res.block_hash = last.hash
               /\ res.block_index = last.index

\* a is a prefix of b
IsPrefix(a, b) == Len(a) <= Len(b) /\ \A i \in 1 .. Len(a) : a[i] = b[i]

\* C6: append-only: in every step the old chain is a prefix of the new one,
\* so no block already in the chain is removed, moved or changed and the
\* length never decreases.
C6_AppendOnly == [][IsPrefix(chain, chain')]_vars

\* two blocks have been appended by interleaved calls
C6_Witness ==
    /\ Len(chain) >= 3
    /\ At(chain, 2).previous_hash = At(chain, 1).previous_hash

\* the stored fields of a block
Fields == {"index", "timestamp", "data", "previous_hash", "nonce", "hash"}
\* the five fields calculate_hash reads
HashedFields == Fields \ {"hash"}

\* the payloads a field `data` is overwritten with
Payloads(c) ==
    {GenesisData} \cup {c[j].data : j \in 1 .. Len(c)}
    \cup {VoteData(b[1], b[2], b[3], 0, 1) : b \in Ballots}

\* the digests a field `previous_hash` or `hash` is overwritten with
Digests(c) ==
    {Lit0} \cup {c[j].hash : j \in 1 .. Len(c)}
    \cup {c[j].previous_hash : j \in 1 .. Len(c)}
    \cup {CalculateHash(MineIncr(c[j])) : j \in 1 .. Len(c)}

\* the values field f of a block of chain c is overwritten with
FieldValues(c, f) ==
    CASE f = "index" -> 0 .. MaxCasts + 1
      [] f = "timestamp" -> Times \cup {2}
      [] f = "data" -> Payloads(c)
      [] f = "nonce" -> 0 .. NonceCycle
      [] OTHER -> Digests(c)

\* block b with its field f overwritten by v, nothing recomputed
Corrupt(b, f, v) == [b EXCEPT ![f] = v]

\* chain c with field f of the block at position i (from 0) overwritten
CorruptChain(c, i, f, v) == [c EXCEPT ![i + 1] = Corrupt(@, f, v)]

\* C7: tamper detection: overwriting any one stored field of any block at
\* a position i >= 1 with a different value, and recomputing nothing, makes
\* is_chain_valid() false.
C7_TamperDetected ==
    \A f \in Fields : \A v \in FieldValues(chain, f) : \A i \in Positions(chain) :
        (i >= 1 /\ v # At(chain, i)[f]) => ~IsChainValid(CorruptChain(chain, i, f, v))

\* a chain with two vote blocks that is_chain_valid() accepts before it is
\* tampered with
C7_Witness == Len(chain) >= 3 /\ IsChainValid(chain)

\* C8: every block of the chain, genesis included, stores the hash that
\* calculate_hash() gives for its index, timestamp, payload, previous_hash
\* and nonce; changing any one of these five and recomputing gives a
\* different hash.
C8_HashMatchesFields ==
    /\ \A i \in Positions(chain) : At(chain, i).hash = CalculateHash(At(chain, i))
    /\ \A f \in HashedFields : \A v \in FieldValues(chain, f) : \A i \in Positions(chain) :
          LET b == At(chain, i)
          IN v # b[f] => CalculateHash(Corrupt(b, f, v)) # b.hash

\* the chain holds a vote block that took nonce increments to seal
C8_Witness ==
    \E i \in Positions(chain) :
        At(chain, i).data.type = "vote" /\ At(chain, i).nonce > 0

\* the hash of b has `d` leading '0' characters and is the hash of b's fields
Sealed(b, d) == LeadingZeros(b.hash) >= d /\ b.hash = CalculateHash(b)

\* the block at position i is linked to a block that precedes it in the
\* chain (the genesis block to the literal '0')
Linked(c, i) ==
    IF i = 0 THEN At(c, i).previous_hash = Lit0
    ELSE \E j \in 0 .. i - 1 : At(c, i).previous_hash = At(c, j).hash

\* a thread's block whose nonce search has not ended
Mining(t) == pc[t] = "mine" /\ ~MineDone(new_block[t], difficulty)

Appended == {r.call : r \in returns} \cup {call[t] : t \in {u \in Threads : pc[u] = "return"}}

\* C10: has_voter_voted(v, e) is true exactly when the chain holds a block
\* of type 'vote' with election_id e and voter_hash SHA256(v): true for
\* (v, e) once a cast of v in e has appended, and false for every (v, e2) in
\* which v has not cast.
C10_HasVoterVoted ==
    \A v \in Voters, e \in Elections :
        /\ HasVoterVoted(chain, v, e) <=>
              \E i \in Positions(chain) :
                 /\ At(chain, i).data.type = "vote"
                 /\ At(chain, i).data.election_id = e
                 /\ At(chain, i).data.voter_hash = Sha256(v)
        /\ HasVoterVoted(chain, v, e) <=>
              \E a \in Appended : a.voter = v /\ a.election = e

\* a voter has cast in one election and not in the other
C10_Witness ==
    \E r \in returns : \E e2 \in Elections :
        /\ e2 # r.call.election
        /\ HasVoterVoted(chain, r.call.voter, r.call.election)
        /\ ~HasVoterVoted(chain, r.call.voter, e2)

(* ------------------------------ tallies -------------------------------- *)
\* the number of vote blocks of election e, counted block by block
RECURSIVE CountVotes(_, _)
CountVotes(c, e) ==
    IF c = << >> THEN 0
    ELSE (IF Head(c).data.type = "vote" /\ Head(c).data.election_id = e THEN 1 ELSE 0)
         + CountVotes(Tail(c), e)

\* the sum of the values of a dictionary of counts
RECURSIVE SumCounts(_)
SumCounts(f) ==
    IF DOMAIN f = {} THEN 0
    ELSE LET h == CHOOSE x \in DOMAIN f : TRUE
         IN f[h] + SumCounts([k \in DOMAIN f \ {h} |-> f[k]])

\* C11: whatever casts have run, get_election_results(e) reports as
\* total_votes the number of vote blocks of election e in the chain, and the
\* counts of its vote_distribution add up to total_votes.
C11_TallyTotal ==
    last_read.op = "get_election_results" =>
        /\ last_read.result.total_votes = CountVotes(chain, last_read.arg)
        /\ SumCounts(last_read.result.vote_distribution) = last_read.result.total_votes

\* a tally of an election that has two vote blocks
C11_Witness ==
    /\ last_read.op = "get_election_results"
    /\ last_read.result.total_votes = 2

\* the vote blocks of election e whose candidate_hash is h
VotesFor(c, e, h) ==
    {i \in 1 .. Len(c) : /\ c[i].data.type = "vote"
                         /\ c[i].data.election_id = e
                         /\ c[i].data.candidate_hash = h}

\* the candidate hashes a tally can be asked about
CandidateHashes ==
    {Sha256(Str(k)) : k \in Candidates} \cup {Sha256(v) : v \in Voters}
    \cup {chain[i].data.candidate_hash : i \in {j \in 1 .. Len(chain) : chain[j].data.type = "vote"}}

\* the calls that have returned, for election e and candidate k
ReturnedFor(e, k) == {r \in returns : r.call.election = e /\ r.call.candidate = k}

\* C12: in the vote_distribution of get_election_results(e) every candidate
\* hash h maps to the number of vote blocks of e with candidate_hash h and is
\* absent exactly when that number is 0; once all casts have returned, the
\* entry of SHA256(c) is the number of casts made for c in e, so that two
\* casts for distinct candidates give a chain of length 3, a total of 2 and
\* one vote for each.
C12_Distribution ==
    last_read.op = "get_election_results" =>
        LET e == last_read.arg
            dist == last_read.result.vote_distribution
        IN /\ \A h \in CandidateHashes :
                 /\ h \in DOMAIN dist <=> VotesFor(chain, e, h) # {}
                 /\ h \in DOMAIN dist => dist[h] = Cardinality(VotesFor(chain, e, h))
           /\ DOMAIN dist \subseteq CandidateHashes
           /\ Quiescent =>
                 /\ Len(chain) = 1 + Cardinality(returns)
                 /\ \A k \in Candidates :
                       /\ Sha256(Str(k)) \in DOMAIN dist <=> ReturnedFor(e, k) # {}
                       /\ ReturnedFor(e, k) # {} =>
                             dist[Sha256(Str(k))] = Cardinality(ReturnedFor(e, k))

\* two casts for distinct candidates of one election have returned and the
\* election is tallied: one vote each, total 2, three blocks
C12_Witness ==
    /\ last_read.op = "get_election_results"
    /\ Quiescent
    /\ Len(chain) = 3
    /\ last_read.result.total_votes = 2
    /\ \E h1, h2 \in DOMAIN last_read.result.vote_distribution :
          /\ h1 # h2
          /\ last_read.result.vote_distribution[h1] = 1
          /\ last_read.result.vote_distribution[h2] = 1

(* --------------------------- read operations --------------------------- *)
\* C13: a step in which one of the eight read operations returns (last_read
\* holds its result afterwards) leaves the chain and the difficulty as they
\* were, and is_chain_valid() called again with its previous result still
\* current returns the same boolean.
C13_ReadsDoNotMutate ==
    [][last_read'.op # "none" =>
         /\ chain' = chain
         /\ difficulty' = difficulty
         /\ (last_read.op = "is_chain_valid" /\ last_read'.op = "is_chain_valid") =>
               last_read'.result = last_read.result]_vars

\* is_chain_valid() has run on a chain it rejects
C13_Witness ==
    /\ last_read.op = "is_chain_valid"
    /\ ~last_read.result
    /\ Len(chain) = 3

(* -------------------------- malformed payloads ------------------------- *)
\* a call in which the voter, the election or the candidate is None
Malformed(cl) ==
    cl.voter = NoneVoter \/ cl.election = NoneId \/ cl.candidate = NoneId

\* C14: a cast_vote_to_blockchain call with a missing required field builds
\* no block, leaves the chain without a block of its own, and ends with a
\* returned dict whose success is false.
C14_MalformedRejected ==
    /\ \A t \in Threads :
          (pc[t] # "idle" /\ Malformed(call[t])) =>
              /\ new_block[t] = NoBlock
              /\ pc[t] \notin {"mine", "return"}
    /\ \A i \in 1 .. Len(chain) :
          chain[i].data.type = "vote" =>
              /\ chain[i].data.election_id # NoneId
              /\ chain[i].data.candidate_hash # Sha256(PyStr(NoneId))
    /\ \A r \in returns :
          Malformed(r.call) =>
              /\ "success" \in DOMAIN r.result
              /\ ~r.result.success

\* no block of c has hash h
Absent(c, h) == \A i \in 1 .. Len(c) : c[i].hash # h

\* C15: verify_vote(h) for a hash that no block of the chain has returns a
\* dict whose verified is false and leaves the chain as it was;
\* get_block_by_hash(h) returns None for such a hash.
C15_UnknownHash ==
    [][(/\ last_read.op = "none"
        /\ last_read'.op \in {"verify_vote", "get_block_by_hash"}
        /\ Absent(chain, last_read'.arg)) =>
          /\ chain' = chain
          /\ last_read'.op = "verify_vote" =>
                /\ "verified" \in DOMAIN last_read'.result
                /\ ~last_read'.result.verified
                /\ "data" \notin DOMAIN last_read'.result
          /\ last_read'.op = "get_block_by_hash" => last_read'.result = << >>]_vars

\* verify_vote has answered for a hash that is not in a chain of three blocks
C15_Witness ==
    /\ last_read.op = "verify_vote"
    /\ Absent(chain, last_read.arg)
    /\ ~last_read.result.verified
    /\ Len(chain) = 3

\* C16: verify_vote(h), for the block_hash h that a cast_vote_to_blockchain
\* call for voter v and election e returned, reports verified with the
\* block_index and timestamp that the call returned, a payload with
\* election_id e and voter_hash SHA256(v), and as is_valid_chain what
\* is_chain_valid() gives on the chain as it is; get_block_by_hash(h) returns
\* the first block of the chain whose hash is h.
C16_CastVerifyRoundTrip ==
    /\ last_read.op = "verify_vote" =>
          \A r \in returns :
              r.result.block_hash = last_read.arg =>
                  /\ r.result.success
                  /\ last_read.result.verified
                  /\ last_read.result.block_index = r.result.block_index
                  /\ last_read.result.timestamp = r.result.timestamp
                  /\ last_read.result.data.election_id = r.call.election
                  /\ last_read.result.data.voter_hash = Sha256(r.call.voter)
                  /\ last_read.result.data.transaction_id = r.result.transaction_hash
                  /\ last_read.result.is_valid_chain = IsChainValid(chain)
    /\ last_read.op = "get_block_by_hash" =>
          /\ last_read.result = << >> <=> Absent(chain, last_read.arg)
          /\ last_read.result # << >> =>
                \E i \in 1 .. Len(chain) :
                    /\ chain[i] = last_read.result[1]
                    /\ chain[i].hash = last_read.arg
                    /\ \A j \in 1 .. i - 1 : chain[j].hash # last_read.arg

\* the vote of a returned call is verified after a further cast was appended
C16_Witness ==
    /\ last_read.op = "verify_vote"
    /\ Len(chain) = 3
    /\ \E r \in returns :
          /\ r.result.block_hash = last_read.arg
          /\ chain[2].hash = last_read.arg
          /\ last_read.result.verified

(* ------------------------------- genesis ------------------------------- *)
\* C17: as long as no cast has been started the chain is the one the
\* constructor built: exactly one block, with index 0, payload type
\* 'genesis', previous_hash the literal '0' and a hash with 2 leading zeros
\* that matches its fields; the difficulty is 2 and is_chain_valid() is true.
C17_FreshChain ==
    nextTx = 1 =>
        /\ Len(chain) = 1
        /\ chain[1].index = 0
        /\ chain[1].data.type = "genesis"
        /\ chain[1].previous_hash = Lit0
        /\ difficulty = 2
        /\ LeadingZeros(chain[1].hash) >= 2
        /\ chain[1].hash = CalculateHash(chain[1])
        /\ IsChainValid(chain)

\* the service has just been constructed; the genesis block needed mining
C17_Witness ==
    /\ nextTx = 1
    /\ returns = {}
    /\ Len(chain) = 1
    /\ chain[1].nonce > 0

(* ------------------------------- mining -------------------------------- *)
\* mine_block(d) run again from nonce = 0 on a block with the index,
\* timestamp, payload and previous_hash of b
Remine(b, d) == MineBlock(Rehash([b EXCEPT !.nonce = 0]), d)

\* the blocks whose mining has ended: those of the chain and those about to
\* be appended
Mined ==
    {chain[i] : i \in 1 .. Len(chain)}
    \cup {new_block[t] : t \in {u \in Threads : pc[u] = "mine" /\ MineDone(new_block[u], difficulty)}}

\* C18: every block whose mining has ended, whatever the other threads and
\* the clock did while its nonce was searched, has the nonce and the hash
\* that a second run of mine_block from nonce = 0 on the same index,
\* timestamp, payload and previous_hash ends with, and its hash starts
\* with `difficulty` zeros.
C18_MiningDeterminism ==
    \A b \in Mined :
        /\ Remine(b, difficulty).nonce = b.nonce
        /\ Remine(b, difficulty).hash = b.hash
        /\ LeadingZeros(b.hash) >= difficulty

\* a block that two iterations of the search sealed is in the chain
C18_Witness ==
    \E i \in 2 .. Len(chain) : chain[i].nonce = 2

(* ----------------------------- pseudonymity ---------------------------- *)
\* the vote payloads at rest: in the blocks of the chain and in the records
\* of export_blockchain()
StoredVotes ==
    {chain[i].data : i \in {j \in 1 .. Len(chain) : chain[j].data.type = "vote"}}
    \cup {ExportBlockchain(chain)[i].data :
             i \in {j \in 1 .. Len(chain) : ExportBlockchain(chain)[j].data.type = "vote"}}

\* payloads p and q agree on every field but those named in except
SameBut(p, q, except) ==
    /\ DOMAIN p = DOMAIN q
    /\ \A k \in DOMAIN p \ except : p[k] = q[k]

\* C19: every vote payload in the chain or in an export record comes from
\* a call (v, e, c) whose voter_hash is SHA256(v) and candidate_hash is
\* SHA256(str(c)); a call for another voter would have stored the same
\* payload but for voter_hash, and a call for another candidate the same
\* payload but for candidate_hash, so no other field holds either
\* identifier; the export records have the six fields of a block and nothing
\* else.
C19_PseudonymousAtRest ==
    /\ \A p \in StoredVotes :
          \E cl \in Appended :
              /\ p.voter_hash = Sha256(cl.voter)
              /\ p.candidate_hash = Sha256(PyStr(cl.candidate))
              /\ p.election_id = cl.election
              /\ \A v \in Voters :
                    SameBut(p, VoteData(v, cl.election, cl.candidate, p.timestamp,
                                        p.transaction_id), {"voter_hash"})
              /\ \A k \in Candidates :
                    SameBut(p, VoteData(cl.voter, cl.election, k, p.timestamp,
                                        p.transaction_id), {"candidate_hash"})
    /\ \A i \in 1 .. Len(chain) :
          /\ DOMAIN ExportBlockchain(chain)[i] =
                 {"index", "timestamp", "data", "previous_hash", "nonce", "hash"}
          /\ ExportBlockchain(chain)[i].data = chain[i].data

\* two votes of different voters for different candidates are stored
C19_Witness ==
    /\ Len(chain) = 3
    /\ chain[2].data.voter_hash # chain[3].data.voter_hash
    /\ chain[2].data.candidate_hash # chain[3].data.candidate_hash

(* ----------------------------- double votes ---------------------------- *)
\* the vote blocks of voter v in election e
VotesOf(c, v, e) ==
    {i \in 1 .. Len(c) : /\ c[i].data.type = "vote"
                         /\ c[i].data.election_id = e
                         /\ c[i].data.voter_hash = Sha256(v)}

\* C20: when a cast_vote_to_blockchain(v, e, c) call reaches its append
\* while has_voter_voted(v, e) is already true, the chain still grows by
\* exactly its vote block and get_election_results(e).total_votes grows by
\* one; and the call of a voter whose votes in e are two or more returns
\* success.
C20_NoUniquenessCheck ==
    [][\A t \in Threads :
         /\ (/\ pc[t] = "mine" /\ pc'[t] = "return"
             /\ HasVoterVoted(chain, call[t].voter, call[t].election)) =>
               /\ Len(chain') = Len(chain) + 1
               /\ SubSeq(chain', 1, Len(chain)) = chain
               /\ chain'[Len(chain')].data = vote_data[t]
               /\ GetElectionResults(chain', call[t].election).total_votes =
                      GetElectionResults(chain, call[t].election).total_votes + 1
         /\ (/\ pc[t] = "return" /\ pc'[t] = "idle"
             /\ Cardinality(VotesOf(chain, call[t].voter, call[t].election)) >= 2) =>
               \E r \in returns' \ returns :
                   /\ r.call = call[t]
                   /\ r.result.success
                   /\ r.result.block_hash = new_block[t].hash]_vars

\* both votes of one voter in one election are in the chain and both calls
\* have returned
C20_Witness ==
    /\ Quiescent
    /\ Cardinality(returns) = 2
    /\ \E v \in Voters, e \in Elections :
          /\ Cardinality(VotesOf(chain, v, e)) = 2
          /\ GetElectionResults(chain, e).total_votes = 2

(* ------------------------------ the caller ----------------------------- *)
\* the request (voter, election, candidate) fails a check that does not
\* depend on the Vote table
FailsStaticCheck(voter, election, candidate) ==
    \/ voter = NoneVoter
    \/ ~IsActive(election, now)
    \/ CandidateConstituency[candidate] # VoterConstituency[voter]

\* thread t answers request rid with success = false without having called
\* the ledger
RejectedUpstream(t, rid) ==
    /\ view'[t].stage = "none"
    /\ rid \in DOMAIN responses'
    /\ ~responses'[rid].success
    /\ chain' = chain
    /\ pc'[t] = "idle"
    /\ nextTx' = nextTx
    /\ returns' = returns

\* C21: an api_cast_vote request with no voter in the session, an election
\* that is not active, an existing Vote row of the voter in the election or
\* a candidate of another constituency is answered with success = false in
\* a step that leaves the chain unchanged, and never gets as far as calling
\* cast_vote_to_blockchain.
C21_UpstreamGate ==
    [][/\ \A rid \in DOMAIN responses' \ DOMAIN responses :
            (\/ rid \notin UsedRids
             \/ \E t \in Threads : view[t].rid = rid /\ view[t].stage = "validate") =>
                /\ ~responses'[rid].success
                /\ chain' = chain
                /\ nextTx' = nextTx
                /\ returns' = returns
       /\ \A t \in Threads :
            /\ (/\ view[t].stage = "validate"
                /\ \/ VoteExists(view[t].voter, view[t].election)
                   \/ FailsStaticCheck(view[t].voter, view[t].election, view[t].candidate)
                /\ view'[t] # view[t]) => RejectedUpstream(t, view[t].rid)
            /\ (view[t].stage = "none" /\ view'[t].stage # "none") =>
                  /\ view'[t].voter # NoneVoter
                  /\ IsActive(view'[t].election, now)
            /\ view'[t].stage \in {"cast", "ledger", "create"} =>
                  ~FailsStaticCheck(view'[t].voter, view'[t].election, view'[t].candidate)
            /\ (view[t].stage = "validate" /\ view'[t].stage = "cast") =>
                  ~VoteExists(view[t].voter, view[t].election)]_vars

\* a request of a voter who has a Vote row in the election has been rejected
C21_Witness ==
    /\ Len(chain) = 2
    /\ \E i \in DOMAIN responses :
          /\ responses[i].message = "You have already voted"
          /\ ~responses[i].success

(* ------------------------------- alarms -------------------------------- *)
\* C22: a chain that is_chain_valid() rejects stays rejected, and keeps all
\* its blocks as they are, through every later step of a cast or of a read;
\* and a call of is_chain_valid() that returns false leaves the chain as it
\* was.
C22_NeverRepaired ==
    [][/\ ~IsChainValid(chain) => (~IsChainValid(chain') /\ IsPrefix(chain, chain'))
       /\ (/\ last_read.op = "none"
           /\ last_read'.op = "is_chain_valid"
           /\ ~last_read'.result) => chain' = chain]_vars

\* a block was appended to a chain that is_chain_valid() rejected, and
\* is_chain_valid() has returned false again
C22_Witness ==
    /\ Len(chain) = 4
    /\ ~IsChainValid(SubSeq(chain, 1, 3))
    /\ last_read.op = "is_chain_valid"
    /\ ~last_read.result

(* ------------------------------ liveness ------------------------------- *)
\* the call that drew transaction id k is in progress
Started(k) ==
    \E t \in Threads : pc[t] # "idle" /\ vote_data[t].transaction_id = k

\* the call that drew transaction id k has returned success and its block
\* is in the chain
Completed(k) ==
    /\ \E r \in returns : r.result.transaction_hash = k /\ r.result.success
    /\ \E i \in 2 .. Len(chain) : chain[i].data.transaction_id = k

\* C23: with every running thread scheduled again and again, each
\* cast_vote_to_blockchain call that has started eventually returns, with
\* its block in the chain.
C23_RunToCompletion ==
    \A k \in 1 .. MaxCasts : Started(k) ~> Completed(k)

\* both calls have completed, one of them after a nonce search of two
\* iterations
C23_Witness ==
    /\ \A k \in 1 .. MaxCasts : Completed(k)
    /\ \E i \in 2 .. Len(chain) : chain[i].nonce = 2

(* ------------------------------- export -------------------------------- *)
\* record rec carries the six fields of block b
Carries(rec, b) ==
    /\ rec.index = b.index
    /\ rec.timestamp = b.timestamp
    /\ rec.data = b.data
    /\ rec.previous_hash = b.previous_hash
    /\ rec.nonce = b.nonce
    /\ rec.hash = b.hash

\* C24: what export_blockchain() returns has as many records as the chain
\* has blocks, record i carrying the index, timestamp, payload,
\* previous_hash, nonce and hash of block i; and the export of the chain
\* before a step is a prefix of the export of the chain after it.
C24_ExportIsChain ==
    [][/\ last_read'.op = "export_blockchain" =>
            /\ Len(last_read'.result) = Len(chain')
            /\ \A i \in 1 .. Len(chain') : Carries(last_read'.result[i], chain'[i])
       /\ IsPrefix(ExportBlockchain(chain), ExportBlockchain(chain'))]_vars

\* a chain of three blocks has been exported
C24_Witness ==
    /\ last_read.op = "export_blockchain"
    /\ Len(last_read.result) = 3
    /\ last_read.result[3].data.type = "vote"

(* --------------------------- genesis tampering ------------------------- *)
\* C25: overwriting any one of index, timestamp, payload, previous_hash or
\* nonce of block 0 with a different value, in a chain of any length and
\* recomputing nothing, makes is_chain_valid() false.
C25_GenesisTamperDetected ==
    \A f \in HashedFields : \A v \in FieldValues(chain, f) :
        v # At(chain, 0)[f] => ~IsChainValid(CorruptChain(chain, 0, f, v))

(* ----------------------- the ledger and the Vote table ----------------- *)
\* C26: whatever the interleaving of api_cast_vote requests, the chain
\* holds at most one vote block for each pair of a voter's SHA256 and an
\* election.
C26_OneLedgerVotePerVoter ==
    \A v \in Voters, e \in Elections : Cardinality(VotesOf(chain, v, e)) <= 1

\* no api_cast_vote request is being served
BetweenRequests == \A t \in Threads : view[t].stage = "none"

\* the hashes of the vote blocks of chain c
VoteBlockHashes(c) == {c[i].hash : i \in {j \in 1 .. Len(c) : c[j].data.type = "vote"}}

\* C27: between requests, the vote blocks of the chain and the rows of the
\* Vote table correspond one to one through blockchain_hash, and the chain
\* holds a vote block only for the requests answered with success = true
\* (none for a request answered with success = false).
C27_LedgerMatchesVotes ==
    BetweenRequests =>
        /\ VoteBlockHashes(chain) = {r.blockchain_hash : r \in votes}
        /\ Cardinality(VoteBlockHashes(chain)) = Cardinality(votes)
        /\ VoteBlockHashes(chain) =
               {responses[i].blockchain_hash : i \in {j \in DOMAIN responses : responses[j].success}}

(* -------------------------- election isolation ------------------------- *)
\* the tally of election e and the has_voter_voted answers for e are the
\* same on chains c and d
SameForElection(c, d, e) ==
    LET rc == GetElectionResults(c, e)
        rd == GetElectionResults(d, e)
    IN /\ rc.total_votes = rd.total_votes
       /\ DOMAIN rc.vote_distribution = DOMAIN rd.vote_distribution
       /\ \A h \in DOMAIN rc.vote_distribution :
              rc.vote_distribution[h] = rd.vote_distribution[h]
       /\ \A v \in Voters : HasVoterVoted(c, v, e) = HasVoterVoted(d, v, e)

\* thread t appends the block of its call in this step
Appends(t) == pc[t] = "mine" /\ pc'[t] = "return"

\* C28: a step in which a cast_vote_to_blockchain(v, e, c) call appends its
\* block, like every other step of such a call, leaves total_votes and
\* vote_distribution of get_election_results(e2) and has_voter_voted(v2,
\* e2) as they were for every election e2 other than e and every voter v2.
C28_ElectionIsolation ==
    [][\A e2 \in Elections :
          (\A t \in Threads : Appends(t) => call[t].election # e2) =>
              SameForElection(chain, chain', e2)]_vars

\* the chain holds a vote of election 1 followed by a vote of election 2
C28_Witness ==
    /\ Len(chain) = 3
    /\ chain[2].data.election_id = 1
    /\ chain[3].data.election_id = 2
    /\ GetElectionResults(chain, 1).total_votes = 1

(* ---------------------------- chain shape ------------------------------ *)
\* the calls whose block has been appended: those that returned success and
\* those between their append and their return
SuccessfulCasts ==
    Cardinality({r \in returns : r.result.success})
    + Cardinality({t \in Threads : pc[t] = "return"})

\* C29: in every state the chain is non-empty, so that get_latest_block()
\* is one of its blocks; block 0 is the genesis block and every later block
\* is a vote block; and total_blocks of get_blockchain_stats() is 1 plus
\* the number of casts that have appended.
C29_ChainShape ==
    /\ Len(chain) >= 1
    /\ \E i \in 1 .. Len(chain) : chain[i] = GetLatestBlock(chain)
    /\ At(chain, 0).data.type = "genesis"
    /\ At(chain, 0).index = 0
    /\ \A i \in Positions(chain) : i >= 1 => At(chain, i).data.type = "vote"
    /\ GetBlockchainStats(chain, difficulty).total_blocks = 1 + SuccessfulCasts
    /\ GetBlockchainStats(chain, difficulty).latest_block_hash = chain[Len(chain)].hash

\* two interleaved casts have both returned
C29_Witness ==
    /\ Quiescent
    /\ Cardinality(returns) = 2
    /\ Len(chain) = 3
    /\ chain[2].previous_hash = chain[3].previous_hash

(* ----------------------------- mine_block ------------------------------ *)
\* blocks a and b differ in nonce and hash at most
SameButNonceAndHash(a, b) ==
    /\ a.index = b.index
    /\ a.timestamp = b.timestamp
    /\ a.data = b.data
    /\ a.previous_hash = b.previous_hash

\* the block mine_start with nonce n and the hash of that
AtNonce(n) == Rehash([mine_start EXCEPT !.nonce = n])

\* C30: every iteration of mine_block leaves index, timestamp, payload and
\* previous_hash alone and does not decrease the nonce; when mine_block
\* returns, the nonce is the smallest one from the starting nonce on whose
\* hash has `difficulty` leading zeros and the hash is the hash at that
\* nonce; with difficulty 0, or a starting hash that already has the
\* zeros, the block is returned as it was.
C30_MineBlockContract ==
    [][\A t \in Threads :
         /\ (pc[t] = "mine" /\ pc'[t] = "mine") =>
               /\ SameButNonceAndHash(new_block[t], new_block'[t])
               /\ new_block'[t].nonce >= new_block[t].nonce
         /\ (pc[t] = "mine" /\ pc'[t] = "mined") =>
               LET b == new_block'[t]
               IN /\ SameButNonceAndHash(mine_start, b)
                  /\ b.nonce >= mine_start.nonce
                  /\ b = AtNonce(b.nonce)
                  /\ LeadingZeros(b.hash) >= difficulty
                  /\ \A n \in mine_start.nonce .. b.nonce - 1 :
                         LeadingZeros(AtNonce(n).hash) < difficulty
                  /\ (difficulty = 0 \/ LeadingZeros(mine_start.hash) >= difficulty) =>
                         b = mine_start]_vars

\* mine_block has returned after two iterations, from a starting nonce
\* other than 0
C30_Witness ==
    /\ pc[1] = "mined"
    /\ mine_start.nonce > 0
    /\ new_block[1].nonce = mine_start.nonce + 2

====
